---- MODULE Spec2Model ----
(***************************************************************************)
(* Model of the tracing layer of aws-api-mcp-server:                       *)
(*   core/common/tracing.py  (TraceBackend variants, TraceManager)         *)
(* Scopes are Python generator-based context managers; the model keeps,    *)
(* for every open scope, the yield at which each generator is suspended.   *)
(***************************************************************************)
EXTENDS Integers, Sequences, FiniteSets, TLC

VARIABLES
    env,        \* os.environ: the two settings the program reads
    backend,    \* TraceManager.backend: "noop" | "otlp" | "xray"
    tracer,     \* OTLPBackend.tracer: "none" | "sdk" | "faulty"
    processors, \* the span processors attached by OTLPBackend.__init__
    recorder,   \* XRayBackend.recorder: "none" | "ok" | "faulty"
    stack,      \* per thread: the open trace scopes, innermost last
    spanTab,    \* the span objects started so far, indexed by identity
    spans,      \* OTLPBackend.spans: the buffer (identities of span objects)
    segTab,     \* the segment / subsegment objects begun so far
    entities,   \* per thread: the recorder's thread-local entity stack
    clock,      \* time.time_ns(), non-decreasing
    exp,        \* the get_resource_spans call in progress (concurrent use)
    obs,        \* what the caller observed from the last completed call
    appends,    \* history: number of buffer appends per span
    exported,   \* history: number of export results each span appeared in
    completed,  \* history: scopes completed since the last export
    nScopes     \* history: number of trace scopes entered so far

vars == <<env, backend, tracer, processors, recorder, stack, spanTab, spans, segTab, entities,
          clock, exp, obs, appends, exported, completed, nScopes>>

----------------------------------------------------------------------------
(* Bounds *)

MaxScopes == 3
MaxDepth == 2
NThreads == 2
MaxCount == 2

Threads == 1..NThreads

----------------------------------------------------------------------------
(* Strings are sequences of characters; str() is modelled by what it does. *)

Rep(c, n) == [i \in 1..n |-> c]

Digit(d) ==
    CASE d = 0 -> "0" [] d = 1 -> "1" [] d = 2 -> "2" [] d = 3 -> "3"
      [] d = 4 -> "4" [] d = 5 -> "5" [] d = 6 -> "6" [] d = 7 -> "7"
      [] d = 8 -> "8" [] OTHER -> "9"

RECURSIVE NatStr(_)
NatStr(n) == IF n < 10 THEN <<Digit(n)>> ELSE NatStr(n \div 10) \o <<Digit(n % 10)>>

SVal(s) == [t |-> "str", s |-> s, n |-> 0]
IVal(n) == [t |-> "int", s |-> <<>>, n |-> n]
BVal(b) == [t |-> "bool", s |-> <<>>, n |-> IF b THEN 1 ELSE 0]

StrDropsSign(v) ==
    CASE v.t = "str" -> v.s
      [] v.t = "int" -> NatStr(IF v.n < 0 THEN -v.n ELSE v.n)
      [] OTHER -> IF v.n = 1 THEN <<"T","r","u","e">> ELSE <<"F","a","l","s","e">>

\* str(value)
Str(v) ==
    CASE v.t = "str" -> v.s
      [] v.t = "int" -> IF v.n < 0 THEN <<"-">> \o NatStr(-v.n) ELSE NatStr(v.n)
      [] OTHER -> IF v.n = 1 THEN <<"T","r","u","e">> ELSE <<"F","a","l","s","e">>

\* str.lower() on the letters the settings are written with
LowerChar(c) ==
    CASE c = "A" -> "a" [] c = "B" -> "b" [] c = "D" -> "d" [] c = "E" -> "e"
      [] c = "F" -> "f" [] c = "I" -> "i" [] c = "L" -> "l" [] c = "O" -> "o"
      [] c = "P" -> "p" [] c = "R" -> "r" [] c = "S" -> "s" [] c = "T" -> "t"
      [] c = "U" -> "u" [] c = "X" -> "x" [] c = "Y" -> "y" [] OTHER -> c

Lower(s) == [i \in 1..Len(s) |-> LowerChar(s[i])]

\* a variable that is not set in the environment
Unset == <<"<unset>">>

\* os.getenv(name, default)
GetEnv(v, default) == IF v = Unset THEN default ELSE v

Environ(b, x) == [AWS_MCP_TRACING_BACKEND |-> b, AWS_XRAY_TRACING_ENABLED |-> x]

RootName == "aws_cli_command"
OpName == "op"
Names == {RootName, OpName}

Attr(k, v) == [key |-> k, value |-> v]

\* the calls trace(op, **attrs) a caller makes
Calls ==
    { <<OpName, << Attr(<<"k">>, SVal(<<"v">>)) >> >> }
    \cup { <<op, << Attr(<<"a",".","b">>, IVal(-12)), Attr(<<"c","-","d">>, BVal(TRUE)) >> >>
              : op \in Names }

Faults == {"E1"}
NoExc == "none"
SetupError == "SetupError"
RuntimeError == "RuntimeError"

----------------------------------------------------------------------------
(* contextlib.contextmanager: the protocol between a with statement and    *)
(* the generator behind it.  A resumed generator either yields again,      *)
(* stops, or raises.                                                       *)

GenYield == [k |-> "yield", exc |-> NoExc]
GenStop == [k |-> "stop", exc |-> NoExc]
GenRaise(e) == [k |-> "raise", exc |-> e]

\* outcome of a with statement's __enter__ / __exit__ as seen by its caller
Ok == NoExc

\* __enter__: next(gen) must yield
CtxEnter(g) ==
    CASE g.k = "yield" -> Ok
      [] g.k = "raise" -> g.exc
      [] OTHER -> RuntimeError

\* __exit__(None, None, None): next(gen) must stop
CtxExitNormal(g) ==
    CASE g.k = "stop" -> Ok
      [] g.k = "raise" -> g.exc
      [] OTHER -> RuntimeError

\* __exit__(typ, value, tb): gen.throw(value); the exception propagates when
\* the generator re-raises it, is suppressed when the generator stops, and a
\* generator that yields again is an error of its own
CtxExitThrow(g, e) ==
    CASE g.k = "raise" -> g.exc
      [] g.k = "stop" -> Ok
      [] OTHER -> RuntimeError

----------------------------------------------------------------------------
(* Span objects (opentelemetry.sdk.trace.Span as used by OTLPBackend)      *)

HexDigit(d) ==
    CASE d < 10 -> Digit(d) [] d = 10 -> "a" [] d = 11 -> "b" [] d = 12 -> "c"
      [] d = 13 -> "d" [] d = 14 -> "e" [] OTHER -> "f"

RECURSIVE HexStr(_)
HexStr(n) == IF n < 16 THEN <<HexDigit(n)>> ELSE HexStr(n \div 16) \o <<HexDigit(n % 16)>>

\* format(n, '0<w>x')
FormatHex(n, w) ==
    LET h == HexStr(n)
    IN  IF Len(h) >= w THEN h ELSE Rep("0", w - Len(h)) \o h

\* span.set_attribute(key, str(value)) for every keyword argument
CoerceAttributes(attrs) ==
    [i \in 1..Len(attrs) |-> Attr(attrs[i].key, Str(attrs[i].value))]

\* self.tracer.start_span(name) followed by the set_attribute loop
StartSpan(name, attrs, now) ==
    [ name |-> name, attributes |-> CoerceAttributes(attrs),
      start_time |-> now, end_time |-> 0,
      status |-> "UNSET", description |-> NoExc, sdk |-> TRUE ]

\* span.set_status(Status(StatusCode.ERROR, str(e)))
SetStatusError(sp, e) == [sp EXCEPT !.status = "ERROR", !.description = e]

EndSpanLeavesOpen(sp, now) == sp

\* span.end(): an already ended span keeps its end time
EndSpan(sp, now) == IF sp.end_time = 0 THEN [sp EXCEPT !.end_time = now] ELSE sp

AppendTwice(buf, id, isSdk) == buf \o <<id, id>>

\* if isinstance(span, SDKSpan): self.spans.append(span)
AppendIfSdk(buf, id, isSdk) == IF isSdk THEN Append(buf, id) ELSE buf

----------------------------------------------------------------------------
(* Segment objects and the recorder's context (aws_xray_sdk, as called by  *)
(* XRayBackend.create_span)                                                *)

EmptyMap == [x \in {} |-> <<>>]
Put(f, k, v) == [x \in DOMAIN f \cup {k} |-> IF x = k THEN v ELSE f[x]]

ReplaceChar(s, a, b) == [i \in 1..Len(s) |-> IF s[i] = a THEN b ELSE s[i]]

CleanKeyDotsOnly(key) == ReplaceChar(key, ".", "_")

\* key.replace('.', '_').replace('-', '_')
CleanKey(key) == ReplaceChar(ReplaceChar(key, ".", "_"), "-", "_")

AnnotationLimit == 50

\* entity.put_annotation(key, value): the call and its effect on the entity
PutAnnotation(seg, k, v) ==
    [seg EXCEPT !.annotations = Put(@, k, v),
                !.puts = Append(@, [store |-> "annotation", key |-> k, value |-> v])]

\* entity.put_metadata(key, value)
PutMetadata(seg, k, v) ==
    [seg EXCEPT !.metadata = Put(@, k, v),
                !.puts = Append(@, [store |-> "metadata", key |-> k, value |-> v])]

\* the routing loop over attributes.items()
RECURSIVE RouteAttributes(_, _)
RouteAttributes(seg, attrs) ==
    IF attrs = <<>> THEN seg
    ELSE LET a == Head(attrs)
             k == CleanKey(a.key)
             v == Str(a.value)
             s1 == IF Len(v) <= AnnotationLimit
                   THEN PutAnnotation(seg, k, v)
                   ELSE PutMetadata(seg, k, v)
         IN  RouteAttributes(s1, Tail(attrs))

NewEntity(name, kind, parent, root) ==
    [ name |-> name, kind |-> kind, parent |-> parent, root |-> root,
      closed |-> 0, exceptions |-> <<>>,
      annotations |-> EmptyMap, metadata |-> EmptyMap, puts |-> <<>> ]

ServiceKey == <<"s","e","r","v","i","c","e">>
ServiceName == <<"a","w","s","-","a","p","i","-","m","c","p","-","s","e","r","v","e","r">>

\* recorder.current_segment(): the root segment of the current entity, or None
CurrentSegment(tab, ents) ==
    IF ents = <<>> THEN 0 ELSE tab[ents[Len(ents)]].root

\* number of subsegments of a root that are still in progress
OpenRefs(tab, root) ==
    Cardinality({i \in 1..Len(tab) :
        tab[i].kind = "subsegment" /\ tab[i].root = root /\ tab[i].closed = 0})

\* segment.ready_to_send()
ReadyToSend(tab, root) ==
    root # 0 /\ tab[root].closed > 0 /\ OpenRefs(tab, root) = 0

\* recorder.end_segment(): close the root of the current entity and, when it
\* is complete, send it and clear the context
EndSegment(tab, ents) ==
    IF ents = <<>> THEN [tab |-> tab, ents |-> ents]
    ELSE LET r == tab[ents[Len(ents)]].root
             tab1 == IF r = 0 THEN tab ELSE [tab EXCEPT ![r].closed = @ + 1]
         IN  [tab |-> tab1, ents |-> IF ReadyToSend(tab1, r) THEN <<>> ELSE ents]

\* recorder.end_subsegment(): close and pop the current entity when it is a
\* subsegment
EndSubsegment(tab, ents) ==
    IF ents = <<>> \/ tab[ents[Len(ents)]].kind # "subsegment"
    THEN [tab |-> tab, ents |-> ents]
    ELSE LET s == ents[Len(ents)]
             tab1 == [tab EXCEPT ![s].closed = @ + 1]
             ents1 == SubSeq(ents, 1, Len(ents) - 1)
         IN  [tab |-> tab1,
              ents |-> IF ReadyToSend(tab1, tab[s].root) THEN <<>> ELSE ents1]

\* entity.add_exception(e, stack)
AddException(tab, id, e) == [tab EXCEPT ![id].exceptions = Append(@, e)]

----------------------------------------------------------------------------
(* The generators behind create_span and trace.  A position names the      *)
(* source line of the yield at which a generator is suspended.             *)

\* NoOpBackend.create_span resumed at its yield (e = NoExc: next(),
\* otherwise throw(e))
NoOpResume(pos, e) == IF e = NoExc THEN GenStop ELSE GenRaise(e)

\* OTLPBackend.create_span resumed: line 76 has no handler; at line 84 the
\* except clause re-raises after set_status
OTLPResume(pos, e) == IF e = NoExc THEN GenStop ELSE GenRaise(e)

\* XRayBackend.create_span resumed: a fault thrown at the yields inside the
\* try blocks (156, 171, 174) is caught by the except clauses, which yield
\* None (159, 177); at the other yields the fault propagates
XRayResume(pos, e) ==
    CASE e = NoExc -> GenStop
      [] pos \in {"xray156", "xray171", "xray174"} -> GenYield
      [] OTHER -> GenRaise(e)

BackendResume(pos, e) ==
    CASE pos = "noop40" -> NoOpResume(pos, e)
      [] pos \in {"otlp76", "otlp84"} -> OTLPResume(pos, e)
      [] OTHER -> XRayResume(pos, e)

TraceSetupPropagates(b) ==
    IF CtxEnter(b) = Ok THEN [pos |-> "t191", g |-> GenYield]
    ELSE [pos |-> "dead", g |-> GenRaise(CtxEnter(b))]

\* TraceManager.trace up to its first yield: b is the outcome of the backend
\* generator's setup; a failed __enter__ is caught and None is yielded
TraceSetup(b) ==
    IF CtxEnter(b) = Ok THEN [pos |-> "t191", g |-> GenYield]
    ELSE [pos |-> "t194", g |-> GenYield]

\* TraceManager.trace resumed at its yield: at line 191 the with statement
\* exits the backend's scope first, and whatever that raises is caught by
\* the except clause, which yields None; at line 194 nothing is caught
TraceResume(pos, bpos, e) ==
    IF pos = "t191"
    THEN LET b == BackendResume(bpos, e)
             r == IF e = NoExc THEN CtxExitNormal(b) ELSE CtxExitThrow(b, e)
         IN  IF r = Ok THEN GenStop ELSE GenYield
    ELSE IF e = NoExc THEN GenStop ELSE GenRaise(e)

\* what the caller of `with trace_manager.trace(...)` observes at scope exit
TraceExit(pos, bpos, e) ==
    LET g == TraceResume(pos, bpos, e)
    IN  IF e = NoExc THEN CtxExitNormal(g) ELSE CtxExitThrow(g, e)

\* what the caller of `with backend.create_span(...)` observes at scope exit
BackendExit(bpos, e) ==
    LET g == BackendResume(bpos, e)
    IN  IF e = NoExc THEN CtxExitNormal(g) ELSE CtxExitThrow(g, e)

----------------------------------------------------------------------------
(* Span setup per backend: the generator runs to its first yield.  The     *)
(* result names the yield reached (or the fault raised), the handle        *)
(* yielded, and the new span table, segment table, context and clock.      *)

Setup(g, pos, span, seg, st, sg, en, ck) ==
    [g |-> g, pos |-> pos, span |-> span, seg |-> seg,
     spanTab |-> st, segTab |-> sg, ents |-> en, clock |-> ck]

NoOpSetup(t, name, attrs) ==
    Setup(GenYield, "noop40", 0, 0, spanTab, segTab, entities[t], clock)

OTLPSetupUnguarded(t, name, attrs) ==
    Setup(GenYield, "otlp84", Len(spanTab) + 1, 0,
          Append(spanTab, StartSpan(name, attrs, clock + 1)),
          segTab, entities[t], clock + 1)

\* OTLPBackend.create_span up to its yield (lines 75-84)
OTLPSetup(t, name, attrs) ==
    CASE tracer = "none" ->
            Setup(GenYield, "otlp76", 0, 0, spanTab, segTab, entities[t], clock)
      [] tracer = "faulty" ->
            Setup(GenRaise(SetupError), "dead", 0, 0, spanTab, segTab,
                  entities[t], clock)
      [] OTHER ->
            Setup(GenYield, "otlp84", Len(spanTab) + 1, 0,
                  Append(spanTab, StartSpan(name, attrs, clock + 1)),
                  segTab, entities[t], clock + 1)

IsRootOperationNever(name) == FALSE

\* line 146: name == 'aws_cli_command'
IsRootOperation(name) == name = RootName

XRayOpensSubsegmentAlways(cur) == TRUE

\* the test `if current_segment:` on the result of current_segment()
XRayOpensSubsegment(cur) == cur # 0

XRaySetup(t, name, attrs) ==
    LET ents == entities[t]
        id == Len(segTab) + 1
    IN  CASE recorder = "none" ->
                Setup(GenYield, "xray144", 0, 0, spanTab, segTab, ents, clock)
          [] recorder = "faulty" ->
                Setup(GenYield, IF IsRootOperation(name) THEN "xray159" ELSE "xray177",
                      0, 0, spanTab, segTab, ents, clock)
          [] IsRootOperation(name) ->
                LET seg0 == NewEntity(name, "segment", 0, id)
                    seg1 == PutAnnotation(seg0, ServiceKey, ServiceName)
                IN  Setup(GenYield, "xray156", 0, id, spanTab,
                          Append(segTab, RouteAttributes(seg1, attrs)),
                          <<id>>, clock)
          [] XRayOpensSubsegment(CurrentSegment(segTab, ents)) ->
                LET sub == NewEntity(name, "subsegment",
                                     IF ents = <<>> THEN 0 ELSE ents[Len(ents)],
                                     CurrentSegment(segTab, ents))
                IN  Setup(GenYield, "xray171", 0, id, spanTab,
                          Append(segTab, RouteAttributes(sub, attrs)),
                          Append(ents, id), clock)
          [] OTHER ->
                Setup(GenYield, "xray174", 0, 0, spanTab, segTab, ents, clock)

BackendSetup(t, name, attrs) ==
    CASE backend = "noop" -> NoOpSetup(t, name, attrs)
      [] backend = "otlp" -> OTLPSetup(t, name, attrs)
      [] OTHER -> XRaySetup(t, name, attrs)

----------------------------------------------------------------------------
(* Scope exit per backend: the effects of resuming the generator           *)

Finish(st, buf, sg, en) == [spanTab |-> st, spans |-> buf, segTab |-> sg, ents |-> en]

OTLPFinishPrepends(t, f, e) ==
    IF f.bpos # "otlp84" THEN Finish(spanTab, spans, segTab, entities[t])
    ELSE LET sp0 == spanTab[f.span]
             sp1 == IF e = NoExc THEN sp0 ELSE SetStatusError(sp0, e)
             sp2 == EndSpan(sp1, clock)
         IN  Finish([spanTab EXCEPT ![f.span] = sp2],
                    <<f.span>> \o spans, segTab, entities[t])

\* OTLPBackend.create_span lines 85-93: set_status on a fault, then the
\* finally block ends the span and appends it
OTLPFinish(t, f, e) ==
    IF f.bpos # "otlp84" THEN Finish(spanTab, spans, segTab, entities[t])
    ELSE LET sp0 == spanTab[f.span]
             sp1 == IF e = NoExc THEN sp0 ELSE SetStatusError(sp0, e)
             sp2 == EndSpan(sp1, clock)
         IN  Finish([spanTab EXCEPT ![f.span] = sp2],
                    AppendIfSdk(spans, f.span, sp2.sdk), segTab, entities[t])

\* XRayBackend.create_span: leaving `with in_segment` / `with in_subsegment`
\* attaches a fault to the scope's own entity and ends the current one
XRayFinish(t, f, e) ==
    LET tab1 == IF e = NoExc THEN segTab ELSE AddException(segTab, f.seg, e)
    IN  CASE f.bpos = "xray156" ->
                LET r == EndSegment(tab1, entities[t])
                IN  Finish(spanTab, spans, r.tab, r.ents)
          [] f.bpos = "xray171" ->
                LET r == EndSubsegment(tab1, entities[t])
                IN  Finish(spanTab, spans, r.tab, r.ents)
          [] OTHER -> Finish(spanTab, spans, segTab, entities[t])

BackendFinish(t, f, e) ==
    CASE f.tpos # "t191" -> Finish(spanTab, spans, segTab, entities[t])
      [] backend = "otlp" -> OTLPFinish(t, f, e)
      [] backend = "xray" -> XRayFinish(t, f, e)
      [] OTHER -> Finish(spanTab, spans, segTab, entities[t])

----------------------------------------------------------------------------
(* Serialization (OTLPBackend.get_resource_spans)                          *)

StatusOfSpan(sp) ==
    IF sp.status = "ERROR" THEN "STATUS_CODE_ERROR" ELSE "STATUS_CODE_OK"

\* line 111: the status code written for every record
StatusCodeJson(sp) == "STATUS_CODE_OK"

\* lines 107-110: one {key, value: {stringValue}} per attribute of the span
AttributesJson(attrs) ==
    [i \in 1..Len(attrs) |->
        [key |-> attrs[i].key, stringValue |-> Str(SVal(attrs[i].value))]]

\* lines 98-112: the record of one buffered span
SpanJson(sp, id, now) ==
    [ traceId |-> FormatHex(id, 32),
      spanId |-> FormatHex(id, 16),
      name |-> sp.name,
      kind |-> "SPAN_KIND_INTERNAL",
      startTimeUnixNano |-> NatStr(sp.start_time),
      endTimeUnixNano |-> NatStr(IF sp.end_time # 0 THEN sp.end_time ELSE now),
      attributes |-> AttributesJson(sp.attributes),
      status |-> StatusCodeJson(sp) ]

ServiceVersion == <<"0",".","2",".","1","4">>

\* lines 115-125
OTLPResult(spansJson) ==
    [ resource |-> << [key |-> <<"service.name">>, stringValue |-> ServiceName],
                      [key |-> <<"service.version">>, stringValue |-> ServiceVersion] >>,
      scopeSpans |-> << [ scope |-> [name |-> ServiceName, version |-> ServiceVersion],
                          spans |-> spansJson ] >> ]

\* {'resource': {}, 'scopeSpans': []}
EmptyResult == [resource |-> <<>>, scopeSpans |-> <<>>]

\* backend.get_resource_spans() of each backend class, given the records
\* of the buffered spans
BackendGetResourceSpans(b, json) ==
    IF b = "otlp" THEN OTLPResult(json) ELSE EmptyResult

ManagerReturnsEmpty(b, json) == EmptyResult

\* TraceManager.get_resource_spans (line 231)
ManagerGetResourceSpans(b, json) == BackendGetResourceSpans(b, json)

ClearKeeps(buf) == buf

\* line 127: self.spans.clear()
Clear(buf) == <<>>

\* the span list of an export result
ResultSpans(r) == IF r.scopeSpans = <<>> THEN <<>> ELSE r.scopeSpans[1].spans

----------------------------------------------------------------------------
(* State *)

NoHandle == [k |-> "none", id |-> 0]
NoFrame == [op |-> "", attrs |-> <<>>, tpos |-> "", bpos |-> "",
            span |-> 0, seg |-> 0, handle |-> NoHandle]

NoRecord == [traceId |-> <<>>, spanId |-> <<>>, name |-> "", kind |-> "",
             startTimeUnixNano |-> <<>>, endTimeUnixNano |-> <<>>,
             attributes |-> <<>>, status |-> ""]

NoObs == [kind |-> "init", t |-> 0, raised |-> NoExc, seen |-> NoExc,
          frame |-> NoFrame, result |-> EmptyResult, record |-> NoRecord]

IdleExp == [pc |-> "idle", idx |-> 0, acc |-> <<>>, ids |-> <<>>]

CountIn(seq, x) == Cardinality({i \in 1..Len(seq) : seq[i] = x})

\* OTLPBackend.__init__: the console exporter is always attached, the
\* network exporter only when it can be constructed; without the library
\* there is no tracer
OTLPInit(tr, exporterOk) ==
    CASE tr = "none" -> <<"otlp", "none", <<>>, "none">>
      [] exporterOk -> <<"otlp", tr, <<"console", "otlp">>, "none">>
      [] OTHER -> <<"otlp", tr, <<"console">>, "none">>

\* XRayBackend.__init__
XRayInit(rc) == <<"xray", "none", <<>>, rc>>

NoOpInit == <<"noop", "none", <<>>, "none">>

WordDisabled == <<"d","i","s","a","b","l","e","d">>
WordOtlp == <<"o","t","l","p">>
WordXray == <<"x","r","a","y">>

\* the setting under which get_trace_backend() builds each kind of backend
SettingOf(kind) ==
    CASE kind = "otlp" -> WordOtlp [] kind = "xray" -> WordXray [] OTHER -> WordDisabled

\* get_trace_backend() and the environment the constructors meet
Configs ==
    { NoOpInit }
    \cup { OTLPInit(tr, x) : tr \in {"none", "sdk", "faulty"}, x \in BOOLEAN }
    \cup { XRayInit(rc) : rc \in {"none", "ok", "faulty"} }

InitState(cfg, e) ==
    /\ env = e
    /\ backend = cfg[1]
    /\ tracer = cfg[2]
    /\ processors = cfg[3]
    /\ recorder = cfg[4]
    /\ stack = [t \in Threads |-> <<>>]
    /\ spanTab = <<>>
    /\ spans = <<>>
    /\ segTab = <<>>
    /\ entities = [t \in Threads |-> <<>>]
    /\ clock = 0
    /\ exp = IdleExp
    /\ obs = NoObs
    /\ appends = <<>>
    /\ exported = <<>>
    /\ completed = <<>>
    /\ nScopes = 0

InitWith(cfg) == InitState(cfg, Environ(SettingOf(cfg[1]), Unset))

Init == \E cfg \in Configs : InitWith(cfg)

----------------------------------------------------------------------------
(* Operations *)

HandleOf(tr, b) ==
    CASE tr.pos # "t191" -> NoHandle
      [] b.span # 0 -> [k |-> "span", id |-> b.span]
      [] b.seg # 0 -> [k |-> "segment", id |-> b.seg]
      [] OTHER -> NoHandle

\* `with trace_manager.trace(op, **attrs) as span:` up to the start of the body
Enter(t, op, attrs) ==
    /\ backend \in {"noop", "otlp", "xray"}
    /\ nScopes < MaxScopes
    /\ Len(stack[t]) < MaxDepth
    /\ LET b == BackendSetup(t, op, attrs)
           tr == TraceSetup(b.g)
           res == CtxEnter(tr.g)
           f == [op |-> op, attrs |-> attrs, tpos |-> tr.pos, bpos |-> b.pos,
                 span |-> b.span, seg |-> b.seg, handle |-> HandleOf(tr, b)]
       IN  /\ stack' = IF res = Ok THEN [stack EXCEPT ![t] = Append(@, f)] ELSE stack
           /\ spanTab' = b.spanTab
           /\ segTab' = b.segTab
           /\ entities' = [entities EXCEPT ![t] = b.ents]
           /\ clock' = b.clock
           /\ appends' = IF Len(b.spanTab) > Len(spanTab) THEN Append(appends, 0) ELSE appends
           /\ exported' = IF Len(b.spanTab) > Len(spanTab) THEN Append(exported, 0) ELSE exported
           /\ obs' = [NoObs EXCEPT !.kind = "enter", !.t = t, !.seen = res, !.frame = f]
    /\ nScopes' = nScopes + 1
    /\ UNCHANGED <<env, backend, tracer, processors, recorder, spans, exp, completed>>

\* the body of the innermost scope of thread t ends: normally (e = NoExc) or
\* by raising e; the scope's __exit__ runs and the caller observes `seen`
Exit(t, e) ==
    /\ backend \in {"noop", "otlp", "xray"}
    /\ stack[t] # <<>>
    /\ LET f == stack[t][Len(stack[t])]
           fin == BackendFinish(t, f, e)
       IN  /\ stack' = [stack EXCEPT ![t] = SubSeq(@, 1, Len(@) - 1)]
           /\ spanTab' = fin.spanTab
           /\ spans' = fin.spans
           /\ segTab' = fin.segTab
           /\ entities' = [entities EXCEPT ![t] = fin.ents]
           /\ appends' = [i \in 1..Len(appends) |->
                            appends[i] + CountIn(fin.spans, i) - CountIn(spans, i)]
           /\ completed' = Append(completed, [op |-> f.op, attrs |-> f.attrs, raised |-> e])
           /\ obs' = [NoObs EXCEPT !.kind = "exit", !.t = t, !.raised = e,
                        !.seen = TraceExit(f.tpos, f.bpos, e), !.frame = f]
    /\ UNCHANGED <<env, backend, tracer, processors, recorder, clock, exp, exported, nScopes>>

ExitNormal(t) == Exit(t, NoExc)

ExitRaise(t) == \E e \in Faults : Exit(t, e)

\* number of times span i occurs in the sequence of identities ids
Bump(cnt, ids) == [i \in 1..Len(cnt) |-> cnt[i] + CountIn(ids, i)]

\* TraceManager.get_resource_spans -> backend.get_resource_spans, run to
\* completion without interruption
GetResourceSpans ==
    /\ backend \in {"noop", "otlp", "xray"}
    /\ exp.pc = "idle"
    /\ \A i \in 1..Len(exported) : exported[i] < MaxCount
    /\ LET json == [i \in 1..Len(spans) |-> SpanJson(spanTab[spans[i]], spans[i], clock)]
           res == ManagerGetResourceSpans(backend, json)
       IN  /\ spans' = IF backend = "otlp" THEN Clear(spans) ELSE spans
           /\ exported' = IF backend = "otlp" THEN Bump(exported, spans) ELSE exported
           /\ obs' = [NoObs EXCEPT !.kind = "export", !.t = 1, !.result = res]
    /\ completed' = <<>>
    /\ UNCHANGED <<env, backend, tracer, processors, recorder, stack, spanTab, segTab, entities,
                   clock, exp, appends, nScopes>>

Next ==
    \/ \E c \in Calls : Enter(1, c[1], c[2])
    \/ ExitNormal(1)
    \/ ExitRaise(1)
    \/ GetResourceSpans

Spec == Init /\ [][Next]_vars

----------------------------------------------------------------------------
(* Concurrent use of one OTLP backend: several threads finish scopes while *)
(* one thread runs get_resource_spans.  Under the interpreter lock a       *)
(* thread switch can fall between any two steps of the export: each turn   *)
(* of the loop over self.spans, the end of the loop, and the clear.        *)

InitConc == InitWith(OTLPInit("sdk", TRUE))

ConcAttrs == { << Attr(<<"k">>, SVal(<<"v">>)) >> }

\* line 96: spans_json = []
ExportBegin ==
    /\ exp.pc = "idle"
    /\ \A i \in 1..Len(exported) : exported[i] < MaxCount
    /\ exp' = [pc |-> "loop", idx |-> 0, acc |-> <<>>, ids |-> <<>>]
    /\ obs' = [NoObs EXCEPT !.kind = "export_begin"]
    /\ UNCHANGED <<env, backend, tracer, processors, recorder, stack, spanTab, spans, segTab,
                   entities, clock, appends, exported, completed, nScopes>>

\* lines 97-113: the list iterator takes the next element while there is one
ExportStep ==
    /\ exp.pc = "loop"
    /\ IF exp.idx < Len(spans)
       THEN LET id == spans[exp.idx + 1]
            IN  exp' = [exp EXCEPT !.idx = @ + 1,
                                   !.acc = Append(@, SpanJson(spanTab[id], id, clock)),
                                   !.ids = Append(@, id)]
       ELSE exp' = [exp EXCEPT !.pc = "clear"]
    /\ obs' = [NoObs EXCEPT !.kind = "export_step"]
    /\ UNCHANGED <<env, backend, tracer, processors, recorder, stack, spanTab, spans, segTab,
                   entities, clock, appends, exported, completed, nScopes>>

\* lines 115-128: build the result, clear the buffer, return
ExportClear ==
    /\ exp.pc = "clear"
    /\ spans' = Clear(spans)
    /\ exported' = Bump(exported, exp.ids)
    /\ obs' = [NoObs EXCEPT !.kind = "export", !.result = OTLPResult(exp.acc)]
    /\ exp' = IdleExp
    /\ completed' = <<>>
    /\ UNCHANGED <<env, backend, tracer, processors, recorder, stack, spanTab, segTab, entities,
                   clock, appends, nScopes>>

NextConc ==
    \/ \E t \in Threads, attrs \in ConcAttrs : Enter(t, OpName, attrs)
    \/ \E t \in Threads : ExitNormal(t)
    \/ \E t \in Threads : ExitRaise(t)
    \/ ExportBegin
    \/ ExportStep
    \/ ExportClear

SpecConc == InitConc /\ [][NextConc]_vars

----------------------------------------------------------------------------
(* The legacy manager, core/common/otel.py: OTelTraceManager keeps its own *)
(* tracer and span collector (here: spanTab and spans) and opens an X-Ray  *)
(* segment itself.  backend = "legacy" marks a process that uses it.       *)

WordTrue == <<"t","r","u","e">>
WordFalse == <<"f","a","l","s","e">>

\* os.getenv('AWS_XRAY_TRACING_ENABLED', 'false').lower() == 'true'
XRayEnabled(e) == Lower(GetEnv(e.AWS_XRAY_TRACING_ENABLED, WordFalse)) = WordTrue

\* the characters of an operation name, as passed to put_annotation
NameChars(name) ==
    IF name = RootName
    THEN <<"a","w","s","_","c","l","i","_","c","o","m","m","a","n","d">>
    ELSE <<"o","p">>

OperationKey == <<"o","p","e","r","a","t","i","o","n">>

\* OTelTraceManager.__init__ and the module-level import of the X-Ray SDK:
\* the network exporter is attached only when X-Ray is not enabled and the
\* exporter can be constructed
OTelInit(sdkAvailable, enabled, exporterOk) ==
    << "legacy", "sdk",
       IF ~enabled /\ exporterOk THEN <<"console", "otlp">> ELSE <<"console">>,
       IF sdkAvailable THEN "ok" ELSE "none" >>

XRaySettings == { Unset, WordTrue, <<"T","R","U","E">> }

InitOtel ==
    \E x \in XRaySettings, sdkAvailable \in BOOLEAN, exporterOk \in BOOLEAN :
        InitState(OTelInit(sdkAvailable, XRayEnabled(Environ(Unset, x)), exporterOk),
                  Environ(Unset, x))

\* lines 108-112 and 143-155: which of the three branches a call takes
OTelPath(name) ==
    IF recorder = "ok" /\ name \in {RootName}
    THEN IF XRayEnabled(env) THEN "otel132" ELSE "otel146"
    ELSE "otel158"

\* line 136: segment.add_exception(e) is called without the stack argument
\* that Entity.add_exception(exception, stack, remote=False) requires
OTelAddException(e) == "TypeError"

\* lines 201-205: OK only for StatusCode.OK
OTelStatusJson(sp) ==
    IF sp.status = "OK" THEN "STATUS_CODE_OK" ELSE "STATUS_CODE_ERROR"

\* OTelTraceManager.span_to_otlp_json
SpanToOtlpJson(sp, id, now) ==
    [ traceId |-> FormatHex(id, 32),
      spanId |-> FormatHex(id, 16),
      name |-> sp.name,
      kind |-> "SPAN_KIND_INTERNAL",
      startTimeUnixNano |-> NatStr(sp.start_time),
      endTimeUnixNano |-> NatStr(IF sp.end_time # 0 THEN sp.end_time ELSE now),
      attributes |-> AttributesJson(sp.attributes),
      status |-> OTelStatusJson(sp) ]

\* `with otel_manager.trace_operation(name, attributes) as span:` up to the
\* start of the body
TraceOperationEnter(t, name, attrs) ==
    /\ backend = "legacy"
    /\ nScopes < MaxScopes
    /\ Len(stack[t]) < MaxDepth
    /\ LET id == Len(spanTab) + 1
           path == OTelPath(name)
           sid == IF path = "otel132" THEN Len(segTab) + 1 ELSE 0
           seg0 == NewEntity(name, "segment", 0, sid)
           seg1 == PutAnnotation(seg0, OperationKey, NameChars(name))
           seg2 == PutAnnotation(seg1, ServiceKey, ServiceName)
           f == [op |-> name, attrs |-> attrs, tpos |-> "otel", bpos |-> path,
                 span |-> id, seg |-> sid, handle |-> [k |-> "span", id |-> id]]
       IN  /\ spanTab' = Append(spanTab, StartSpan(name, attrs, clock + 1))
           /\ clock' = clock + 1
           /\ segTab' = IF sid # 0
                        THEN Append(segTab, RouteAttributes(seg2, attrs))
                        ELSE segTab
           /\ entities' = IF sid # 0 THEN [entities EXCEPT ![t] = <<sid>>] ELSE entities
           /\ stack' = [stack EXCEPT ![t] = Append(@, f)]
           /\ obs' = [NoObs EXCEPT !.kind = "enter", !.t = t, !.frame = f]
    /\ appends' = Append(appends, 0)
    /\ exported' = Append(exported, 0)
    /\ nScopes' = nScopes + 1
    /\ UNCHANGED <<env, backend, tracer, processors, recorder, spans, exp, completed>>

\* the fault that leaves the generator of trace_operation when e is thrown
\* into it at its yield
OTelRaised(path, e) ==
    IF path = "otel132" THEN OTelAddException(e) ELSE e

\* the body of the innermost trace_operation scope ends
TraceOperationExit(t, e) ==
    /\ backend = "legacy"
    /\ stack[t] # <<>>
    /\ LET f == stack[t][Len(stack[t])]
           sp0 == spanTab[f.span]
           sp1 == IF e = NoExc THEN sp0 ELSE SetStatusError(sp0, e)
           sp2 == EndSpan(sp1, clock)
           buf == AppendIfSdk(spans, f.span, sp2.sdk)
           out == IF e = NoExc THEN NoExc ELSE OTelRaised(f.bpos, e)
           tab1 == IF f.seg # 0 /\ out # NoExc
                   THEN AddException(segTab, f.seg, out) ELSE segTab
           r == IF f.seg # 0 THEN EndSegment(tab1, entities[t])
                ELSE [tab |-> segTab, ents |-> entities[t]]
           g == IF out = NoExc THEN GenStop ELSE GenRaise(out)
       IN  /\ stack' = [stack EXCEPT ![t] = SubSeq(@, 1, Len(@) - 1)]
           /\ spanTab' = [spanTab EXCEPT ![f.span] = sp2]
           /\ spans' = buf
           /\ segTab' = r.tab
           /\ entities' = [entities EXCEPT ![t] = r.ents]
           /\ appends' = [i \in 1..Len(appends) |->
                            appends[i] + CountIn(buf, i) - CountIn(spans, i)]
           /\ completed' = Append(completed, [op |-> f.op, attrs |-> f.attrs, raised |-> e])
           /\ obs' = [NoObs EXCEPT !.kind = "exit", !.t = t, !.raised = e,
                        !.seen = IF e = NoExc THEN CtxExitNormal(g) ELSE CtxExitThrow(g, e),
                        !.frame = f]
    /\ UNCHANGED <<env, backend, tracer, processors, recorder, clock, exp, exported, nScopes>>

TraceOperationExitNormal(t) == TraceOperationExit(t, NoExc)

TraceOperationExitRaise(t) == \E e \in Faults : TraceOperationExit(t, e)

\* OTelTraceManager.get_resource_spans
OTelGetResourceSpans ==
    /\ backend = "legacy"
    /\ \A i \in 1..Len(exported) : exported[i] < MaxCount
    /\ LET json == [i \in 1..Len(spans) |-> SpanToOtlpJson(spanTab[spans[i]], spans[i], clock)]
       IN  obs' = [NoObs EXCEPT !.kind = "export", !.t = 1, !.result = OTLPResult(json)]
    /\ spans' = Clear(spans)
    /\ exported' = Bump(exported, spans)
    /\ completed' = <<>>
    /\ UNCHANGED <<env, backend, tracer, processors, recorder, stack, spanTab, segTab,
                   entities, clock, exp, appends, nScopes>>

\* otel_manager.span_to_otlp_json(span) called on any span the caller holds
OTelSpanToJson ==
    /\ backend = "legacy"
    /\ \E id \in 1..Len(spanTab) :
          obs' = [NoObs EXCEPT !.kind = "json", !.t = 1,
                               !.frame = [NoFrame EXCEPT !.span = id],
                               !.record = SpanToOtlpJson(spanTab[id], id, clock)]
    /\ UNCHANGED <<env, backend, tracer, processors, recorder, stack, spanTab, spans,
                   segTab, entities, clock, exp, appends, exported, completed, nScopes>>

\* the calls made of trace_operation: the CLI command and one other operation
OTelCalls == { c \in Calls : Len(c[2]) > 1 }

NextOtel ==
    \/ \E c \in OTelCalls : TraceOperationEnter(1, c[1], c[2])
    \/ TraceOperationExitNormal(1)
    \/ TraceOperationExitRaise(1)
    \/ OTelGetResourceSpans

SpecOtel == InitOtel /\ [][NextOtel]_vars


----------------------------------------------------------------------------
(* Properties *)

FramesOf(t) == { stack[t][i] : i \in 1..Len(stack[t]) }

AllFrames == UNION { FramesOf(t) : t \in Threads }

OpenSpanIds == { f.span : f \in AllFrames } \ {0}

\* the root segments held in a thread's recorder context
OpenRootsIn(tab, ents) ==
    { ents[i] : i \in 1..Len(ents) }
        \cap { id \in 1..Len(tab) : tab[id].kind = "segment" }

OpenRoots(t) == OpenRootsIn(segTab, entities[t])

\* the span a serialized record was made from
SpanOfRecord(r) == CHOOSE id \in 1..Len(spanTab) : FormatHex(id, 16) = r.spanId

\* C1: whatever the backend, a fault raised by the body of a trace scope is
\* the fault the caller of the scope observes.
C1_CallerObservesSameFault ==
    (obs.kind = "exit" /\ obs.raised # NoExc) => obs.seen = obs.raised

\* C2: OTLP backend with a working tracer: a span is appended to the buffer
\* exactly once, at the exit of its scope and after it was ended; while its
\* scope is open it has not been appended, and nothing in the buffer is
\* un-ended.
C2_OneAppendPerScope ==
    (backend = "otlp" /\ tracer = "sdk") =>
        /\ \A f \in AllFrames : f.span # 0
        /\ \A id \in 1..Len(spanTab) :
              IF id \in OpenSpanIds
              THEN appends[id] = 0 /\ spanTab[id].end_time = 0
              ELSE appends[id] = 1 /\ spanTab[id].end_time # 0
        /\ \A i \in 1..Len(spans) : spanTab[spans[i]].end_time # 0

C2_Witness ==
    /\ backend = "otlp" /\ tracer = "sdk"
    /\ obs.kind = "exit" /\ obs.raised # NoExc
    /\ appends[obs.frame.span] = 1
    /\ stack[1] # <<>>
    /\ \E id \in 1..Len(spanTab) : id # obs.frame.span /\ appends[id] = 1

\* C3: single-threaded OTLP use: an export leaves the buffer empty; every
\* finalized span is either still buffered or was returned by exactly one
\* export, never both and never twice; an export that directly follows an
\* export returns an empty span list.
C3_DrainInvariant ==
    /\ (obs.kind = "export" /\ backend = "otlp") => spans = <<>>
    /\ \A id \in 1..Len(spanTab) :
          appends[id] >= 1 => CountIn(spans, id) + exported[id] = 1
    /\ \A id \in 1..Len(spanTab) : appends[id] = 0 => exported[id] = 0

\* C3: the drain invariant holds after every step, and an export that
\* directly follows an export returns an empty span list.
C3_DrainSemantics ==
    [][ /\ C3_DrainInvariant'
        /\ (obs.kind = "export" /\ obs'.kind = "export" /\ backend = "otlp")
              => ResultSpans(obs'.result) = <<>> ]_vars

C3_Witness ==
    /\ backend = "otlp" /\ tracer = "sdk"
    /\ \E id \in 1..Len(spanTab) : exported[id] = 1
    /\ \E id \in 1..Len(spanTab) : CountIn(spans, id) = 1 /\ exported[id] = 0
    /\ obs.kind = "exit"

\* C4: the status code of an exported record is derived from the terminal
\* status of its span: ERROR for a scope left by a fault, OK otherwise.
C4_StatusDerivedFromSpan ==
    (obs.kind = "export" /\ backend = "otlp") =>
        \A i \in 1..Len(ResultSpans(obs.result)) :
            LET r == ResultSpans(obs.result)[i]
            IN  r.status = StatusOfSpan(spanTab[SpanOfRecord(r)])

\* the attribute list the export format prescribes for each call of trace()
ExpectedAttributes(attrs) ==
    IF attrs = << Attr(<<"k">>, SVal(<<"v">>)) >>
    THEN << [key |-> <<"k">>, stringValue |-> <<"v">>] >>
    ELSE << [key |-> <<"a",".","b">>, stringValue |-> <<"-","1","2">>],
            [key |-> <<"c","-","d">>, stringValue |-> <<"T","r","u","e">>] >>

\* C5: OTLP backend with a tracer (whether or not the network exporter was
\* attached): an export returns one record per scope completed since the
\* previous export, in scopeSpans[0].spans, each with the scope's operation
\* name and exactly its string-coerced attributes; a scope that completed
\* normally has status STATUS_CODE_OK.
C5_ExportMatchesCompletedScopes ==
    [][ (obs'.kind = "export" /\ backend = "otlp" /\ tracer = "sdk") =>
            LET r == ResultSpans(obs'.result)
            IN  /\ Len(obs'.result.scopeSpans) = 1
                /\ Len(r) = Len(completed)
                /\ \A i \in 1..Len(r) :
                      /\ r[i].name = completed[i].op
                      /\ r[i].attributes = ExpectedAttributes(completed[i].attrs)
                      /\ completed[i].raised = NoExc => r[i].status = "STATUS_CODE_OK"
      ]_vars

C5_Witness ==
    /\ backend = "otlp" /\ tracer = "sdk" /\ processors = <<"console">>
    /\ obs.kind = "export"
    /\ Len(ResultSpans(obs.result)) = 2
    /\ ResultSpans(obs.result)[1].attributes = << [key |-> <<"k">>, stringValue |-> <<"v">>] >>
    /\ Len(ResultSpans(obs.result)[2].attributes) = 2

\* C6: concurrent use of one OTLP backend: every finalized span is either
\* still buffered or was returned by exactly one export.
C6_NoSpanLostOrDuplicated ==
    \A id \in 1..Len(spanTab) :
        appends[id] >= 1 => CountIn(spans, id) + exported[id] = 1

\* C7: when the backend's create_span raises during setup, trace() does not
\* raise: it yields None, the body is entered once, and a normal completion
\* of that body leaves the scope without error.
C7_SetupFailureAbsorbed ==
    /\ (obs.kind = "enter" /\ backend = "otlp" /\ tracer = "faulty") =>
          /\ obs.seen = NoExc
          /\ obs.frame.handle = NoHandle
          /\ stack[obs.t] # <<>>
          /\ stack[obs.t][Len(stack[obs.t])] = obs.frame
          /\ spanTab = <<>> /\ spans = <<>>
    /\ (obs.kind = "exit" /\ backend = "otlp" /\ tracer = "faulty"
          /\ obs.raised = NoExc) => obs.seen = NoExc

C7_Witness ==
    /\ backend = "otlp" /\ tracer = "faulty"
    /\ obs.kind = "exit" /\ obs.raised = NoExc /\ obs.seen = NoExc
    /\ obs.frame.tpos = "t194"

C10_SegmentFaultRecordedAndPropagated ==
    (obs.kind = "exit" /\ backend = "xray" /\ recorder = "ok"
        /\ obs.raised # NoExc /\ obs.frame.seg # 0) =>
        /\ segTab[obs.frame.seg].exceptions = <<obs.raised>>
        /\ segTab[obs.frame.seg].closed = 1
        /\ obs.seen = obs.raised

----------------------------------------------------------------------------
(* Attribute routing at the boundary of the annotation limit               *)

\* attribute lists whose stringified values have 50 and 51 characters, whose
\* keys contain '.' and '-', and whose keys coincide once normalized
RouteAttrs ==
    { << Attr(<<"a",".","b">>, SVal(Rep("x", AnnotationLimit))) >>,
      << Attr(<<"a","-","b">>, SVal(Rep("x", AnnotationLimit + 1))) >>,
      << Attr(<<"a",".","b">>, SVal(Rep("x", AnnotationLimit + 1))),
         Attr(<<"a","-","b">>, SVal(Rep("y", AnnotationLimit))) >>,
      << Attr(<<".","-","_">>, IVal(-12)) >> }

RouteCalls == { <<op, attrs>> : op \in Names, attrs \in RouteAttrs }

\* a process with the segment recorder in use: the X-Ray backend of the
\* TraceManager, or the legacy manager with X-Ray enabled
InitRoute ==
    \/ InitWith(XRayInit("ok"))
    \/ InitState(OTelInit(TRUE, TRUE, FALSE), Environ(Unset, WordTrue))

NextRoute ==
    \/ \E c \in RouteCalls : Enter(1, c[1], c[2])
    \/ ExitNormal(1)
    \/ \E c \in RouteCalls : TraceOperationEnter(1, c[1], c[2])
    \/ TraceOperationExitNormal(1)

SpecRoute == InitRoute /\ [][NextRoute]_vars

\* the put calls made for the attributes of the scope just entered
AttributePuts(e, attrs) ==
    SubSeq(e.puts, Len(e.puts) - Len(attrs) + 1, Len(e.puts))

\* C11: when a scope that opened a root segment or a subsegment has just
\* been entered, the entity received one put call per attribute, in order:
\* the key is the attribute's key with every '.' and '-' replaced by '_',
\* the value is the stringified value, the call is put_annotation when the
\* value has at most 50 characters and put_metadata when it has 51 or more,
\* and no attribute-derived annotation value is longer than 50 characters.
C11_AttributeRouting ==
    (obs.kind = "enter" /\ obs.frame.seg # 0) =>
        LET e == segTab[obs.frame.seg]
            attrs == obs.frame.attrs
            puts == AttributePuts(e, attrs)
        IN  /\ Len(e.puts) >= Len(attrs)
            /\ \A i \in 1..Len(attrs) :
                 LET k == attrs[i].key
                     v == Str(attrs[i].value)
                 IN  /\ Len(puts[i].key) = Len(k)
                     /\ \A j \in 1..Len(k) :
                          puts[i].key[j] = IF k[j] \in {".", "-"} THEN "_" ELSE k[j]
                     /\ puts[i].value = v
                     /\ (Len(v) <= 50) => puts[i].store = "annotation"
                     /\ (Len(v) >= 51) => puts[i].store = "metadata"
                     /\ (puts[i].store = "annotation") => Len(puts[i].value) <= 50

\* a segment and a subsegment have each received a 50-character annotation
\* and a 51-character metadata value under the same normalized key
C11_Witness ==
    /\ obs.kind = "enter" /\ obs.frame.seg # 0
    /\ Len(obs.frame.attrs) = 2
    /\ LET puts == AttributePuts(segTab[obs.frame.seg], obs.frame.attrs)
       IN  /\ puts[1].store = "metadata" /\ Len(puts[1].value) = 51
           /\ puts[2].store = "annotation" /\ Len(puts[2].value) = 50
           /\ puts[1].key = puts[2].key
    /\ segTab[obs.frame.seg].kind = "subsegment"
    /\ \E i \in 1..Len(segTab) :
          /\ segTab[i].kind = "segment"
          /\ \E n \in 1..Len(segTab[i].puts) :
                /\ segTab[i].puts[n].store = "annotation"
                /\ Len(segTab[i].puts[n].value) = 50

----------------------------------------------------------------------------
(* Backend selection at import of the module (lines 234-243)               *)

GetTraceBackendNoLower(e) ==
    LET backend_type == GetEnv(e.AWS_MCP_TRACING_BACKEND, WordDisabled)
    IN  IF backend_type = WordOtlp THEN "otlp"
        ELSE IF backend_type = WordXray THEN "xray"
        ELSE "noop"

\* get_trace_backend(): the class of the backend it returns
GetTraceBackend(e) ==
    LET backend_type == Lower(GetEnv(e.AWS_MCP_TRACING_BACKEND, WordDisabled))
    IN  IF backend_type = WordOtlp THEN "otlp"
        ELSE IF backend_type = WordXray THEN "xray"
        ELSE "noop"

\* values of AWS_MCP_TRACING_BACKEND the process may be started with
BackendSettings ==
    { Unset, <<>>, WordDisabled, WordOtlp, WordXray,
      <<"O","T","L","P">>, <<"X","r","a","y">>, <<"D","i","s","a","b","l","e","d">>,
      <<"o","t","l","p"," ">>, <<"o","t","e","l">>, <<"x","-","r","a","y">> }

\* before tracing.py is imported there is no manager
InitSelect ==
    \E b \in BackendSettings :
        InitState(<<"unset", "none", <<>>, "none">>, Environ(b, Unset))

\* line 243: trace_manager = TraceManager(get_trace_backend()); the backend's
\* constructor finds its library present or absent
Select ==
    /\ backend = "unset"
    /\ \E cfg \in Configs :
          /\ cfg[1] = GetTraceBackend(env)
          /\ backend' = cfg[1]
          /\ tracer' = cfg[2]
          /\ processors' = cfg[3]
          /\ recorder' = cfg[4]
    /\ obs' = [NoObs EXCEPT !.kind = "select"]
    /\ UNCHANGED <<env, stack, spanTab, spans, segTab, entities, clock, exp,
                   appends, exported, completed, nScopes>>

SelectCalls == { c \in Calls : c[1] = RootName }

NextSelect ==
    \/ Select
    \/ \E c \in SelectCalls : Enter(1, c[1], c[2])
    \/ ExitNormal(1)
    \/ GetResourceSpans

SpecSelect == InitSelect /\ [][NextSelect]_vars

\* the capital form of the letters of the recognized words
UpperOf(c) ==
    CASE c = "o" -> "O" [] c = "t" -> "T" [] c = "l" -> "L" [] c = "p" -> "P"
      [] c = "x" -> "X" [] c = "r" -> "R" [] c = "a" -> "A" [] c = "y" -> "Y"
      [] OTHER -> c

\* s spells the word w, in any mix of capital and small letters
SpellsIgnoringCase(s, w) ==
    /\ s # Unset
    /\ Len(s) = Len(w)
    /\ \A i \in 1..Len(w) : s[i] \in {w[i], UpperOf(w[i])}

\* C12 as stated: the value otlp selects the OTLP backend, xray the
\* segment-recorder backend, and every other value, an unset one included,
\* the No-op backend.
C12_OtherValuesSelectNoOp ==
    (backend # "unset") =>
        LET b == env.AWS_MCP_TRACING_BACKEND
        IN  /\ (b = WordOtlp) => backend = "otlp"
            /\ (b = WordXray) => backend = "xray"
            /\ (b \notin {WordOtlp, WordXray}) => backend = "noop"

\* C12 amended: the value is compared without regard to letter case: a
\* value spelling otlp selects the OTLP backend, one spelling xray the
\* segment-recorder backend, and every other value, an unset one included,
\* the No-op backend.
C12_SelectionIgnoresCase ==
    (backend # "unset") =>
        LET b == env.AWS_MCP_TRACING_BACKEND
        IN  /\ SpellsIgnoringCase(b, WordOtlp) => backend = "otlp"
            /\ SpellsIgnoringCase(b, WordXray) => backend = "xray"
            /\ (~SpellsIgnoringCase(b, WordOtlp) /\ ~SpellsIgnoringCase(b, WordXray))
                    => backend = "noop"

\* the manager was built from the setting OTLP and has exported a span
C12_Witness ==
    /\ env.AWS_MCP_TRACING_BACKEND = <<"O","T","L","P">>
    /\ backend = "otlp"
    /\ obs.kind = "export"
    /\ ResultSpans(obs.result) # <<>>

----------------------------------------------------------------------------
(* Inert backends                                                          *)

\* C13: with the No-op backend every trace() yields None, no exit of a
\* scope shows the caller a fault other than the one its body raised, every
\* get_resource_spans() returns {resource: {}, scopeSpans: []}, and nothing
\* is recorded.
C13_NoOpNeverRaisesOwnError ==
    (backend = "noop") =>
        /\ spanTab = <<>> /\ spans = <<>> /\ segTab = <<>>
        /\ (obs.kind = "enter") => obs.frame.handle = NoHandle
        /\ (obs.kind = "exit") => obs.seen = obs.raised
        /\ (obs.kind = "export") => obs.result = EmptyResult

\* the backend was constructed although its library is missing
LibraryUnavailable ==
    \/ backend = "otlp" /\ tracer = "none"
    \/ backend = "xray" /\ recorder = "none"

----------------------------------------------------------------------------
(* Start and end times of exported records                                 *)

\* a process that buffers spans: the OTLP backend with its tracer, or the
\* legacy manager
InitTime ==
    \/ InitWith(OTLPInit("sdk", TRUE))
    \/ InitState(OTelInit(FALSE, FALSE, TRUE), Environ(Unset, Unset))

NextTime ==
    \/ \E c \in OTelCalls : Enter(1, c[1], c[2])
    \/ ExitNormal(1)
    \/ ExitRaise(1)
    \/ GetResourceSpans
    \/ \E c \in OTelCalls : TraceOperationEnter(1, c[1], c[2])
    \/ TraceOperationExitNormal(1)
    \/ TraceOperationExitRaise(1)
    \/ OTelGetResourceSpans
    \/ OTelSpanToJson

SpecTime == InitTime /\ [][NextTime]_vars

DigitValue(c) == CHOOSE d \in 0..9 : Digit(d) = c

\* the number a decimal string denotes
RECURSIVE ParseNat(_)
ParseNat(s) ==
    IF s = <<>> THEN 0
    ELSE 10 * ParseNat(SubSeq(s, 1, Len(s) - 1)) + DigitValue(s[Len(s)])

\* C15: every span in the buffer was ended when it was appended; every
\* exported record has startTimeUnixNano <= endTimeUnixNano and carries the
\* span's own end time; a record made of a span that was not ended carries
\* the current time as its end time, which is not before its start, and
\* that is the only case in which the current time is used.
C15_EndedBeforeAppendStartNotAfterEnd ==
    /\ \A i \in 1..Len(spans) : spanTab[spans[i]].end_time # 0
    /\ (obs.kind = "export") =>
          \A i \in 1..Len(ResultSpans(obs.result)) :
              LET r == ResultSpans(obs.result)[i]
                  sp == spanTab[SpanOfRecord(r)]
              IN  /\ ParseNat(r.startTimeUnixNano) <= ParseNat(r.endTimeUnixNano)
                  /\ ParseNat(r.startTimeUnixNano) = sp.start_time
                  /\ ParseNat(r.endTimeUnixNano) = sp.end_time
    /\ (obs.kind = "json") =>
          LET r == obs.record
              sp == spanTab[obs.frame.span]
          IN  /\ ParseNat(r.startTimeUnixNano) <= ParseNat(r.endTimeUnixNano)
              /\ ParseNat(r.startTimeUnixNano) = sp.start_time
              /\ ParseNat(r.endTimeUnixNano) =
                    IF sp.end_time = 0 THEN clock ELSE sp.end_time

\* a record was made of a span whose scope is still open, after another
\* span was started
C15_Witness ==
    /\ obs.kind = "json"
    /\ spanTab[obs.frame.span].end_time = 0
    /\ ParseNat(obs.record.startTimeUnixNano) < ParseNat(obs.record.endTimeUnixNano)
    /\ spans # <<>>

----------------------------------------------------------------------------
(* TraceManager.instrument: calls of a wrapped function                    *)

RECURSIVE SplitAcc(_, _, _)
SplitAcc(s, cur, out) ==
    IF s = <<>> THEN (IF cur = <<>> THEN out ELSE Append(out, cur))
    ELSE IF Head(s) = " "
         THEN SplitAcc(Tail(s), <<>>, IF cur = <<>> THEN out ELSE Append(out, cur))
         ELSE SplitAcc(Tail(s), Append(cur, Head(s)), out)

\* str.split(): the words between runs of blanks
Split(s) == SplitAcc(s, <<>>, <<>>)

\* the keyword arguments of a wrapped call, as far as the wrapper reads them
NoKwargs == [has |-> FALSE, cli_command |-> <<>>]
CliCommand(c) == [has |-> TRUE, cli_command |-> c]

\* TraceManager._get_standard_attributes
GetStandardAttributes(operation_name, kwargs) ==
    LET base == << Attr(<<"m","c","p",".","s","e","r","v","e","r",".","n","a","m","e">>, SVal(ServiceName)),
                   Attr(<<"m","c","p",".","o","p","e","r","a","t","i","o","n">>, SVal(NameChars(operation_name))) >>
        parts == Split(kwargs.cli_command)
        tool == << Attr(<<"m","c","p",".","t","o","o","l",".","n","a","m","e">>, SVal(<<"c","a","l","l","_","a","w","s">>)),
                   Attr(<<"a","w","s",".","c","l","i",".","c","o","m","m","a","n","d">>, SVal(kwargs.cli_command)) >>
        svc == IF Len(parts) >= 2 /\ parts[1] = <<"a","w","s">>
               THEN << Attr(<<"a","w","s",".","s","e","r","v","i","c","e">>, SVal(parts[2])) >> ELSE <<>>
        oper == IF svc # <<>> /\ Len(parts) >= 3
                THEN << Attr(<<"a","w","s",".","o","p","e","r","a","t","i","o","n">>, SVal(parts[3])) >> ELSE <<>>
    IN  IF kwargs.has THEN base \o tool \o svc \o oper ELSE base

\* the wrapped calls made: the CLI tool with a command, and a plain function
WrappedCalls ==
    { <<RootName, CliCommand(<<"a","w","s"," "," ","s","3"," ","l","s">>)>>,
      <<OpName, NoKwargs>> }

\* a call of a function wrapped by @trace_manager.instrument(op), up to the
\* start of the function's body (lines 205-208); the body's end is Exit
InstrumentCall(t, op, kwargs) == Enter(t, op, GetStandardAttributes(op, kwargs))

\* the direct call trace(op, k=v) made next to the wrapped calls
DirectCalls == { c \in Calls : Len(c[2]) = 1 }

NextMgr ==
    \/ \E c \in WrappedCalls : InstrumentCall(1, c[1], c[2])
    \/ \E c \in DirectCalls : Enter(1, c[1], c[2])
    \/ ExitNormal(1)
    \/ ExitRaise(1)
    \/ GetResourceSpans

SpecMgr == Init /\ [][NextMgr]_vars

\* C16: no trace call, wrapped call or get_resource_spans call, failing or
\* not, changes the backend the manager holds, and get_resource_spans() of
\* the manager returns what get_resource_spans() of that backend returns
\* for the spans buffered at the call.
C16_BackendFixedAndDelegated ==
    [][ /\ backend' = backend
        /\ tracer' = tracer
        /\ processors' = processors
        /\ recorder' = recorder
        /\ (obs'.kind = "export") =>
              obs'.result = BackendGetResourceSpans(backend,
                  [i \in 1..Len(spans) |-> SpanJson(spanTab[spans[i]], spans[i], clock)])
      ]_vars

\* the manager exported the span of a wrapped CLI call whose body raised
C16_Witness ==
    /\ backend = "otlp"
    /\ obs.kind = "export"
    /\ \E i \in 1..Len(ResultSpans(obs.result)) :
          LET r == ResultSpans(obs.result)[i]
          IN  /\ Len(r.attributes) = 6
              /\ r.attributes[5].stringValue = <<"s","3">>
              /\ spanTab[SpanOfRecord(r)].status = "ERROR"

----------------------------------------------------------------------------
(* The legacy manager's exports and scopes                                 *)

\* C17: in an export of the legacy manager, the record of a span on which
\* no status was set (its scope ended normally) has STATUS_CODE_OK, and
\* the record of a span whose scope ended by a fault has STATUS_CODE_ERROR.
C17_LegacyStatusFromOutcome ==
    (backend = "legacy" /\ obs.kind = "export") =>
        \A i \in 1..Len(ResultSpans(obs.result)) :
            LET r == ResultSpans(obs.result)[i]
                sp == spanTab[SpanOfRecord(r)]
            IN  /\ (sp.status = "UNSET") => r.status = "STATUS_CODE_OK"
                /\ (sp.status = "ERROR") => r.status = "STATUS_CODE_ERROR"

\* C18: on each path of trace_operation the span of a scope that has ended
\* is ended and was appended to the collector exactly once, the caller
\* observes the fault its body raised and no other, and a segment is opened
\* exactly for the name aws_cli_command with the X-Ray SDK present and
\* X-Ray enabled.
C18_OncePerPathFaultUnchanged ==
    (backend = "legacy") =>
        /\ (obs.kind = "exit") =>
              /\ spanTab[obs.frame.span].end_time # 0
              /\ appends[obs.frame.span] = 1
              /\ obs.seen = obs.raised
        /\ (obs.kind = "enter") =>
              ((obs.frame.seg # 0) <=>
                 (recorder = "ok" /\ obs.frame.op = RootName /\ XRayEnabled(env)))

----------------------------------------------------------------------------
(* Order of the OTLP buffer                                                *)

\* the scope of span i lay inside the scope of span o
NestedIn(i, o) ==
    /\ spanTab[o].start_time < spanTab[i].start_time
    /\ spanTab[i].start_time <= spanTab[o].end_time

\* C19: with the OTLP backend, entering a scope leaves the buffer as it is,
\* the end of a scope adds its span at the end of the buffer and removes or
\* moves nothing, an export lists the buffered spans in the order of the
\* buffer, and in an export the span of a scope nested in another scope
\* comes before the span of the enclosing scope.
C19_BufferAppendOnlyInFinalizationOrder ==
    [][ (backend = "otlp") =>
          /\ (obs'.kind = "enter") => spans' = spans
          /\ (obs'.kind = "exit") =>
                /\ Len(spans') >= Len(spans)
                /\ SubSeq(spans', 1, Len(spans)) = spans
                /\ (obs'.frame.span # 0) => spans' = Append(spans, obs'.frame.span)
          /\ (obs'.kind = "export") =>
                LET rs == ResultSpans(obs'.result)
                IN  /\ Len(rs) = Len(spans)
                    /\ \A n \in 1..Len(rs) : SpanOfRecord(rs[n]) = spans[n]
                    /\ \A m, n \in 1..Len(rs) :
                          NestedIn(SpanOfRecord(rs[m]), SpanOfRecord(rs[n])) => m < n
      ]_vars

\* an export listed the span of an inner scope before the span of the scope
\* that enclosed it, followed by the span of a later scope
C19_Witness ==
    /\ backend = "otlp"
    /\ obs.kind = "export"
    /\ LET rs == ResultSpans(obs.result)
       IN  /\ Len(rs) = 3
           /\ SpanOfRecord(rs[1]) = 2
           /\ SpanOfRecord(rs[2]) = 1
           /\ SpanOfRecord(rs[3]) = 3
           /\ NestedIn(2, 1)

====
